---- MODULE Spec2Model ----
(***************************************************************************)
(* Network transport abstraction layer of xash3d-fwgs:                     *)
(*   engine/common/net_transport.c         the registry and the UDP stubs  *)
(*   engine/common/net_transport_webrtc.c  the WebRTC transport and its    *)
(*                                         ring buffer of inbound packets  *)
(* Every exported or descriptor-reachable function is one action.  The     *)
(* variable `call` records the last call: its name, arguments, the value   *)
(* it returned and what it wrote through its out-parameters.  `pending`    *)
(* is a history variable: the packets the contract says are retrievable.   *)
(***************************************************************************)
EXTENDS Integers, Sequences, FiniteSets

\* The ring has 64 slots of 2048 bytes in the source (net_transport_webrtc.c
\* lines 24-25); the model keeps the code and scales both sizes down.
WEBRTC_QUEUE_SIZE == 2
WEBRTC_MAX_PACKET_SIZE == 1

\* Values of one payload byte.
Bytes == {0, 1}

\* The placeholder source address stamped on every inbound packet.
ServerAdr == "127.0.0.1:27015"
NoAdr == "0"

\* net_transport_t pointers: the two singletons and the null pointer.
NULL == "NULL"
g_udp_transport == "UDP"
g_webrtc_transport == "WebRTC"
Transports == {g_udp_transport, g_webrtc_transport}

VARIABLES
    queue,                 \* g_webrtc_state.queue
    head,                  \* g_webrtc_state.head
    tail,                  \* g_webrtc_state.tail
    count,                 \* g_webrtc_state.count
    initialized,           \* g_webrtc_state.initialized
    g_current_transport,   \* the registry's active descriptor
    call,                  \* the last call and its results
    pending                \* history: packets accepted and not yet consumed

state == <<queue, head, tail, count, initialized>>
vars == <<queue, head, tail, count, initialized, g_current_transport, call, pending>>

Slots == 0 .. (WEBRTC_QUEUE_SIZE - 1)

\* All byte strings of length n, and of length lo..hi.
BSeq(n) == [1 .. n -> Bytes]
BSeqs(lo, hi) == UNION {BSeq(n) : n \in lo .. hi}

\* webrtc_packet_t zeroed by the static initializer { 0 }.
ZeroPacket ==
    [data |-> [i \in 1 .. WEBRTC_MAX_PACKET_SIZE |-> 0], length |-> 0, from |-> NoAdr]

\* memcpy( dst, src, n ): the first n bytes of dst are replaced, the rest stay.
Memcpy(dst, src, n) ==
    [i \in 1 .. Len(dst) |-> IF i <= n THEN src[i] ELSE dst[i]]

\* What a call leaves in `call` when it has no argument, result or output.
NoCall(name) ==
    [op |-> name, arg |-> 0, ret |-> 0, targ |-> NULL, tret |-> NULL,
     buf |-> <<>>, from |-> NoAdr, js |-> FALSE, jsret |-> 0, log |-> ""]

Init ==
    /\ queue = [s \in Slots |-> ZeroPacket]
    /\ head = 0
    /\ tail = 0
    /\ count = 0
    /\ initialized = FALSE
    /\ g_current_transport = NULL
    /\ call = NoCall("start")
    /\ pending = <<>>

(***************************************************************************)
(* net_transport.c: the registry                                           *)
(***************************************************************************)

\* Variant: the cell is only written while it is still unset.
SetTransportCellOnce(cur, transport) == IF cur = NULL THEN transport ELSE cur

\* The value NET_SetTransport leaves in g_current_transport.
SetTransportCell(cur, transport) == IF transport # NULL THEN transport ELSE cur

\* Variant: the unset cell is returned as it is, without the default.
ResolveCurrentNone(cur) == cur

\* The value NET_GetCurrentTransport leaves in g_current_transport and returns.
ResolveCurrent(cur) == IF cur = NULL THEN g_udp_transport ELSE cur

NET_GetCurrentTransport ==
    /\ g_current_transport' = ResolveCurrent(g_current_transport)
    /\ call' = [NoCall("NET_GetCurrentTransport") EXCEPT !.tret = g_current_transport']
    /\ UNCHANGED <<state, pending>>

NET_SetTransport(transport) ==
    /\ g_current_transport' = SetTransportCell(g_current_transport, transport)
    /\ call' = [NoCall("NET_SetTransport") EXCEPT
                    !.targ = transport, !.tret = g_current_transport,
                    !.log = IF transport # NULL THEN "switching to" ELSE ""]
    /\ UNCHANGED <<state, pending>>

NET_GetUDPTransport ==
    /\ call' = [NoCall("NET_GetUDPTransport") EXCEPT !.tret = g_udp_transport]
    /\ UNCHANGED <<state, g_current_transport, pending>>

NET_GetWebRTCTransport ==
    /\ call' = [NoCall("NET_GetWebRTCTransport") EXCEPT !.tret = g_webrtc_transport]
    /\ UNCHANGED <<state, g_current_transport, pending>>

(***************************************************************************)
(* net_transport.c: the UDP transport (placeholders in the source)         *)
(***************************************************************************)

\* The lengths the callers pass: a send of one byte and of one byte more than
\* the maximum packet size, receive buffers of every size up to the maximum.
SendLens == {1, WEBRTC_MAX_PACKET_SIZE + 1}
RecvLens == 0 .. WEBRTC_MAX_PACKET_SIZE
UdpLens == {1}

NET_UDP_Init ==
    /\ call' = [NoCall("NET_UDP_Init") EXCEPT !.ret = 1]
    /\ UNCHANGED <<state, g_current_transport, pending>>

NET_UDP_Shutdown ==
    /\ call' = NoCall("NET_UDP_Shutdown")
    /\ UNCHANGED <<state, g_current_transport, pending>>

NET_UDP_Send(len) ==
    /\ call' = [NoCall("NET_UDP_Send") EXCEPT !.arg = len, !.ret = len]
    /\ UNCHANGED <<state, g_current_transport, pending>>

NET_UDP_Poll ==
    /\ call' = [NoCall("NET_UDP_Poll") EXCEPT !.ret = 1]
    /\ UNCHANGED <<state, g_current_transport, pending>>

NET_UDP_Recv(maxlen) ==
    /\ call' = [NoCall("NET_UDP_Recv") EXCEPT !.arg = maxlen, !.ret = 0]
    /\ UNCHANGED <<state, g_current_transport, pending>>

(***************************************************************************)
(* net_transport_webrtc.c                                                  *)
(***************************************************************************)

\* Variant: the index is advanced without the modulo.
NextIndexNoWrap(i) == i + 1

\* The index after i in the ring: (i + 1) % WEBRTC_QUEUE_SIZE.
NextIndex(i) == (i + 1) % WEBRTC_QUEUE_SIZE

\* Variant: the full test is off by one (count > WEBRTC_QUEUE_SIZE).
PushOutcomeOffByOne(init, len, cnt) ==
    IF ~init THEN "received packet but not initialized"
    ELSE IF len <= 0 \/ len > WEBRTC_MAX_PACKET_SIZE THEN "invalid packet size"
    ELSE IF cnt > WEBRTC_QUEUE_SIZE THEN "packet queue full, dropping packet"
    ELSE "queued packet"

\* Variant: the size test lets a zero length through (len < 0).
PushOutcomeZeroLen(init, len, cnt) ==
    IF ~init THEN "received packet but not initialized"
    ELSE IF len < 0 \/ len > WEBRTC_MAX_PACKET_SIZE THEN "invalid packet size"
    ELSE IF cnt >= WEBRTC_QUEUE_SIZE THEN "packet queue full, dropping packet"
    ELSE "queued packet"

\* Variant: the test of the initialized flag is missing.
PushOutcomeNoInitCheck(init, len, cnt) ==
    IF len <= 0 \/ len > WEBRTC_MAX_PACKET_SIZE THEN "invalid packet size"
    ELSE IF cnt >= WEBRTC_QUEUE_SIZE THEN "packet queue full, dropping packet"
    ELSE "queued packet"

\* webrtc_push's early returns, in the order of the code, named by the
\* diagnostic each prints.
PushOutcome(init, len, cnt) ==
    IF ~init THEN "received packet but not initialized"
    ELSE IF len <= 0 \/ len > WEBRTC_MAX_PACKET_SIZE THEN "invalid packet size"
    ELSE IF cnt >= WEBRTC_QUEUE_SIZE THEN "packet queue full, dropping packet"
    ELSE "queued packet"

\* Variant: the copy stops one byte short of len.
PushSlotShort(packet, data, len) ==
    [data |-> Memcpy(packet.data, data, len - 1), length |-> len, from |-> ServerAdr]

\* The slot webrtc_push writes: memcpy of len bytes, the length, the fake address.
PushSlot(packet, data, len) ==
    [data |-> Memcpy(packet.data, data, len), length |-> len, from |-> ServerAdr]

\* Variant: a packet that does not fit is left at the head of the queue.
RecvOutcomeKeepsLarge(init, cnt, packetLength, maxlen) ==
    IF ~init \/ cnt = 0 \/ packetLength > maxlen THEN ""
    ELSE "received"

\* Variant: the fit test is off by one (length > maxlen + 1).
RecvOutcomeOffByOne(init, cnt, packetLength, maxlen) ==
    IF ~init \/ cnt = 0 THEN ""
    ELSE IF packetLength > maxlen + 1 THEN "packet too large, dropping"
    ELSE "received"

\* NET_WebRTC_Recv's branches, named by the diagnostic each prints ("" for
\* the silent return of 0).
RecvOutcome(init, cnt, packetLength, maxlen) ==
    IF ~init \/ cnt = 0 THEN ""
    ELSE IF packetLength > maxlen THEN "packet too large, dropping"
    ELSE "received"

\* Variant: a partial accept is reported as a partial success.
SendResultPartial(len, result) == IF result > len THEN -1 ELSE result

\* NET_WebRTC_Send's result from the bridge's accepted-byte count.
SendResult(len, result) == IF result # len THEN -1 ELSE len

\* NET_WebRTC_Poll's result.
PollResult(init, cnt) == IF ~init THEN 0 ELSE cnt

\* The history of retrievable packets, as the contract states it: a valid
\* push while ready and not full appends, a recv while ready removes the
\* oldest, a successful init and a shutdown discard everything.
PendingPush(data, len) ==
    IF initialized /\ len >= 1 /\ len <= WEBRTC_MAX_PACKET_SIZE
                   /\ Len(pending) < WEBRTC_QUEUE_SIZE
    THEN Append(pending, [length |-> len, bytes |-> SubSeq(data, 1, len)])
    ELSE pending
PendingRecv == IF initialized /\ pending # <<>> THEN Tail(pending) ELSE pending

\* Variant: a successful init zeroes count but not head and tail.
webrtc_init_NoReset(jsReady) ==
    IF ~jsReady
    THEN /\ call' = [NoCall("webrtc_init") EXCEPT
                        !.ret = 0, !.js = TRUE, !.jsret = 0,
                        !.log = "JavaScript side not ready"]
         /\ UNCHANGED <<state, g_current_transport, pending>>
    ELSE /\ count' = 0
         /\ initialized' = TRUE
         /\ g_current_transport' = SetTransportCell(g_current_transport, g_webrtc_transport)
         /\ call' = [NoCall("webrtc_init") EXCEPT
                        !.ret = 1, !.js = TRUE, !.jsret = 1,
                        !.log = "initialized successfully"]
         /\ pending' = <<>>
         /\ UNCHANGED <<queue, head, tail>>

\* Variant: the queue is reset before the bridge is asked.
webrtc_init_ResetFirst(jsReady) ==
    /\ head' = 0
    /\ tail' = 0
    /\ count' = 0
    /\ UNCHANGED queue
    /\ IF ~jsReady
       THEN /\ call' = [NoCall("webrtc_init") EXCEPT
                           !.ret = 0, !.js = TRUE, !.jsret = 0,
                           !.log = "JavaScript side not ready"]
            /\ pending' = pending
            /\ UNCHANGED <<initialized, g_current_transport>>
       ELSE /\ initialized' = TRUE
            /\ g_current_transport' =
                    SetTransportCell(g_current_transport, g_webrtc_transport)
            /\ call' = [NoCall("webrtc_init") EXCEPT
                           !.ret = 1, !.js = TRUE, !.jsret = 1,
                           !.log = "initialized successfully"]
            /\ pending' = <<>>

\* webrtc_init: called by JavaScript when the DataChannel is ready; jsReady is
\* what webrtc_init_js() reports.
webrtc_init(jsReady) ==
    IF ~jsReady
    THEN /\ call' = [NoCall("webrtc_init") EXCEPT
                        !.ret = 0, !.js = TRUE, !.jsret = 0,
                        !.log = "JavaScript side not ready"]
         /\ UNCHANGED <<state, g_current_transport, pending>>
    ELSE /\ head' = 0
         /\ tail' = 0
         /\ count' = 0
         /\ initialized' = TRUE
         /\ g_current_transport' = SetTransportCell(g_current_transport, g_webrtc_transport)
         /\ call' = [NoCall("webrtc_init") EXCEPT
                        !.ret = 1, !.js = TRUE, !.jsret = 1,
                        !.log = "initialized successfully"]
         /\ pending' = <<>>
         /\ UNCHANGED queue

\* Variant: a full queue evicts its oldest packet to make room.
webrtc_push_EvictOldest(data, len) ==
    LET outcome == PushOutcome(initialized, len, count) IN
    /\ call' = [NoCall("webrtc_push") EXCEPT !.arg = len, !.log = outcome]
    /\ pending' = PendingPush(data, len)
    /\ IF outcome = "queued packet"
       THEN /\ queue' = [queue EXCEPT ![tail] = PushSlot(@, data, len)]
            /\ tail' = NextIndex(tail)
            /\ count' = count + 1
            /\ UNCHANGED <<head, initialized, g_current_transport>>
       ELSE IF outcome = "packet queue full, dropping packet"
       THEN /\ queue' = [queue EXCEPT ![tail] = PushSlot(@, data, len)]
            /\ tail' = NextIndex(tail)
            /\ head' = NextIndex(head)
            /\ UNCHANGED <<count, initialized, g_current_transport>>
       ELSE UNCHANGED <<state, g_current_transport>>

\* webrtc_push: called by JavaScript when a DataChannel message arrives.
webrtc_push(data, len) ==
    LET outcome == PushOutcome(initialized, len, count) IN
    /\ call' = [NoCall("webrtc_push") EXCEPT !.arg = len, !.log = outcome]
    /\ pending' = PendingPush(data, len)
    /\ IF outcome = "queued packet"
       THEN /\ queue' = [queue EXCEPT ![tail] = PushSlot(@, data, len)]
            /\ tail' = NextIndex(tail)
            /\ count' = count + 1
            /\ UNCHANGED <<head, initialized, g_current_transport>>
       ELSE UNCHANGED <<state, g_current_transport>>

\* NET_WebRTC_Init: the descriptor's init slot.
NET_WebRTC_Init ==
    /\ call' = [NoCall("NET_WebRTC_Init") EXCEPT !.ret = 1]
    /\ UNCHANGED <<state, g_current_transport, pending>>

\* Variant: shutdown also rewinds head and tail.
NET_WebRTC_Shutdown_Reset ==
    /\ initialized' = FALSE
    /\ count' = 0
    /\ head' = 0
    /\ tail' = 0
    /\ call' = NoCall("NET_WebRTC_Shutdown")
    /\ pending' = <<>>
    /\ UNCHANGED <<queue, g_current_transport>>

\* Variant: shutdown also puts the UDP transport back into the registry.
NET_WebRTC_Shutdown_RestoreUDP ==
    /\ initialized' = FALSE
    /\ count' = 0
    /\ g_current_transport' = g_udp_transport
    /\ call' = NoCall("NET_WebRTC_Shutdown")
    /\ pending' = <<>>
    /\ UNCHANGED <<queue, head, tail>>

NET_WebRTC_Shutdown ==
    /\ initialized' = FALSE
    /\ count' = 0
    /\ call' = NoCall("NET_WebRTC_Shutdown")
    /\ pending' = <<>>
    /\ UNCHANGED <<queue, head, tail, g_current_transport>>

\* NET_WebRTC_Send: result is what emscripten_webrtc_send( buf, len ) reports.
NET_WebRTC_Send(len, result) ==
    /\ IF ~initialized
       THEN call' = [NoCall("NET_WebRTC_Send") EXCEPT
                        !.arg = len, !.ret = -1,
                        !.log = "attempt to send but not initialized"]
       ELSE call' = [NoCall("NET_WebRTC_Send") EXCEPT
                        !.arg = len, !.ret = SendResult(len, result),
                        !.js = TRUE, !.jsret = result,
                        !.log = IF SendResult(len, result) = len
                                THEN "sending" ELSE "send failed"]
    /\ UNCHANGED <<state, g_current_transport, pending>>

NET_WebRTC_Poll ==
    /\ call' = [NoCall("NET_WebRTC_Poll") EXCEPT !.ret = PollResult(initialized, count)]
    /\ UNCHANGED <<state, g_current_transport, pending>>

\* NET_WebRTC_Recv: wantFrom is whether the caller passed a non-null `from`;
\* call.buf is what the call wrote into the caller's buffer.
NET_WebRTC_Recv(maxlen, wantFrom) ==
    LET packet == queue[head]
        outcome == RecvOutcome(initialized, count, packet.length, maxlen)
    IN
    /\ pending' = PendingRecv
    /\ IF outcome = ""
       THEN /\ call' = [NoCall("NET_WebRTC_Recv") EXCEPT !.arg = maxlen, !.ret = 0]
            /\ UNCHANGED <<state, g_current_transport>>
       ELSE /\ IF outcome = "packet too large, dropping"
               THEN call' = [NoCall("NET_WebRTC_Recv") EXCEPT
                                !.arg = maxlen, !.ret = -1, !.log = outcome]
               ELSE call' = [NoCall("NET_WebRTC_Recv") EXCEPT
                                !.arg = maxlen,
                                !.ret = packet.length,
                                !.buf = SubSeq(packet.data, 1, packet.length),
                                !.from = IF wantFrom THEN packet.from ELSE NoAdr,
                                !.log = outcome]
            /\ head' = NextIndex(head)
            /\ count' = count - 1
            /\ UNCHANGED <<queue, tail, initialized, g_current_transport>>

(***************************************************************************)
(* The callers: the networking loop and the JavaScript bridge              *)
(***************************************************************************)

\* What the bridge may pass to webrtc_push: every byte string of a valid
\* length with its length, two strings one byte too long, and the lengths
\* 0 and -1.
PushInputs ==
    {<<d, Len(d)>> : d \in BSeqs(1, WEBRTC_MAX_PACKET_SIZE)}
        \cup {<<[i \in 1 .. (WEBRTC_MAX_PACKET_SIZE + 1) |-> b], WEBRTC_MAX_PACKET_SIZE + 1>> :
                    b \in Bytes}
        \cup {<<<< >>, 0>>, <<<< >>, -1>>}

\* What emscripten_webrtc_send may report for a request of len bytes.
BridgeResults(len) == {len - 1, len, len + 1}

Next ==
    \/ NET_GetCurrentTransport
    \/ \E t \in Transports \cup {NULL} : NET_SetTransport(t)
    \/ NET_GetUDPTransport
    \/ NET_GetWebRTCTransport
    \/ NET_UDP_Init
    \/ NET_UDP_Shutdown
    \/ \E len \in UdpLens : NET_UDP_Send(len)
    \/ NET_UDP_Poll
    \/ \E maxlen \in UdpLens : NET_UDP_Recv(maxlen)
    \/ \E jsReady \in BOOLEAN : webrtc_init(jsReady)
    \/ \E in \in PushInputs : webrtc_push(in[1], in[2])
    \/ NET_WebRTC_Init
    \/ NET_WebRTC_Shutdown
    \/ \E len \in SendLens : \E result \in BridgeResults(len) : NET_WebRTC_Send(len, result)
    \/ NET_WebRTC_Poll
    \/ \E maxlen \in RecvLens : \E wantFrom \in BOOLEAN : NET_WebRTC_Recv(maxlen, wantFrom)

Spec == Init /\ [][Next]_vars

(***************************************************************************)
(* Properties                                                              *)
(***************************************************************************)

\* The packets the ring holds, oldest first, read from the code's state: the
\* count slots starting at head, each as its length and its first length bytes.
Retrievable ==
    [k \in 1 .. count |->
        LET packet == queue[(head + k - 1) % WEBRTC_QUEUE_SIZE] IN
        [length |-> packet.length, bytes |-> SubSeq(packet.data, 1, packet.length)]]

IsRecv(c) == c.op = "NET_WebRTC_Recv"
IsPush(c) == c.op = "webrtc_push"
IsSend(c) == c.op = "NET_WebRTC_Send"
IsWebrtcInit(c) == c.op = "webrtc_init"

\* C1 - FIFO delivery: while ready, the ring holds exactly the pushes that
\* were not dropped for invalid size or a full queue and were not yet
\* consumed, in push order, and a recv given a buffer at least as large as
\* the head packet returns the oldest of them, with the length and the bytes
\* that were pushed, and removes exactly that one.
C1_FifoDelivery ==
    /\ [](initialized => Retrievable = pending)
    /\ [][(IsRecv(call') /\ initialized /\ pending # << >>
                /\ call'.arg >= Head(pending).length)
            => /\ call'.ret = Head(pending).length
               /\ call'.buf = Head(pending).bytes
               /\ Retrievable' = Tail(pending)]_vars

\* A recv delivered one packet while a different, later one is still queued.
C1_Witness ==
    /\ IsRecv(call) /\ call.ret >= 1
    /\ initialized /\ pending # << >>
    /\ call.buf # Head(pending).bytes

\* C2 - Queue occupancy: 0 <= count <= WEBRTC_QUEUE_SIZE always, and count is
\* 0 right after a successful webrtc_init and right after shutdown.
C2_Occupancy ==
    /\ 0 <= count /\ count <= WEBRTC_QUEUE_SIZE
    /\ (IsWebrtcInit(call) /\ call.ret = 1) => count = 0
    /\ call.op = "NET_WebRTC_Shutdown" => count = 0

\* Shutdown emptied a queue whose slots had all been written.
C2_Witness ==
    /\ call.op = "NET_WebRTC_Shutdown" /\ count = 0 /\ ~initialized
    /\ \A s \in Slots : queue[s].length >= 1

C4_InvalidSizeNoOp ==
    [][(IsPush(call') /\ (call'.arg <= 0 \/ call'.arg > WEBRTC_MAX_PACKET_SIZE))
        => UNCHANGED <<queue, head, tail, count>>]_vars

\* An oversized push arrived while ready with room in the queue.
C4_Witness ==
    /\ IsPush(call) /\ call.arg > WEBRTC_MAX_PACKET_SIZE
    /\ call.log = "invalid packet size"
    /\ initialized /\ count >= 1 /\ count < WEBRTC_QUEUE_SIZE

\* C5 - Buffer too small: while ready and non-empty, a recv whose maxlen is
\* smaller than the head packet's length returns a negative value, writes
\* nothing into the buffer, decreases count by one and advances head by one
\* modulo the capacity; what remains retrievable is what was queued behind
\* the dropped packet.
C5_BufferTooSmallDrop ==
    [][(IsRecv(call') /\ initialized /\ count > 0 /\ call'.arg < queue[head].length)
        => /\ call'.ret < 0
           /\ call'.buf = << >>
           /\ count' = count - 1
           /\ head' = (head + 1) % WEBRTC_QUEUE_SIZE
           /\ Retrievable' = Tail(Retrievable)]_vars

\* A recv dropped the head packet and the packet pushed after it is next.
C5_Witness ==
    /\ IsRecv(call) /\ call.ret < 0 /\ call.log = "packet too large, dropping"
    /\ initialized /\ count >= 1

\* C6 - recv result taxonomy: recv returns 0 exactly when the transport is
\* not ready or the queue is empty, and a positive result r is the head
\* packet's length, with 1 <= r <= maxlen and exactly r bytes written.
C6_RecvTaxonomy ==
    [][IsRecv(call')
        => /\ (call'.ret = 0) <=> (~initialized \/ count = 0)
           /\ call'.ret > 0 =>
                /\ call'.ret = queue[head].length
                /\ 1 <= call'.ret /\ call'.ret <= call'.arg
                /\ Len(call'.buf) = call'.ret]_vars

\* A recv delivered a packet that filled the caller's buffer exactly.
C6_Witness == IsRecv(call) /\ call.ret >= 1 /\ call.ret = call.arg

\* C7 - send result: while ready, send returns len when the bridge reports
\* len and a negative value when it reports anything else; send never
\* changes the queue or the ready flag.
C7_SendResult ==
    /\ []((IsSend(call) /\ initialized)
            => /\ call.js
               /\ call.jsret = call.arg => call.ret = call.arg
               /\ call.jsret # call.arg => call.ret < 0)
    /\ [][IsSend(call') => UNCHANGED <<queue, head, tail, count, initialized>>]_vars

\* The bridge accepted fewer bytes than requested while packets were queued.
C7_Witness ==
    /\ IsSend(call) /\ initialized /\ call.js
    /\ call.jsret < call.arg /\ call.ret < 0 /\ count >= 1

\* C8 - Successful webrtc_init, in any state: on return head = tail = count
\* = 0, the transport is ready, WebRTC is the registry's active descriptor,
\* and nothing queued before the call is retrievable.
C8_InitSuccess ==
    (IsWebrtcInit(call) /\ call.ret = 1)
        => /\ head = 0 /\ tail = 0 /\ count = 0
           /\ initialized
           /\ g_current_transport = g_webrtc_transport
           /\ ResolveCurrent(g_current_transport) = g_webrtc_transport
           /\ Retrievable = << >>
           /\ pending = << >>

\* webrtc_init succeeded on a ring whose slots had all been written.
C8_Witness ==
    /\ IsWebrtcInit(call) /\ call.ret = 1
    /\ \A s \in Slots : queue[s].length >= 1

\* C9 - Failed webrtc_init: when the bridge reports not ready the call
\* returns 0 and the ready flag, head, tail, count, the slots and the
\* registry's active descriptor are what they were.
C9_InitFailure ==
    /\ []((IsWebrtcInit(call) /\ call.jsret = 0) => call.ret = 0)
    /\ [][(IsWebrtcInit(call') /\ call'.jsret = 0)
            => UNCHANGED <<queue, head, tail, count, initialized,
                           g_current_transport>>]_vars

\* webrtc_init failed on a ready transport with packets queued.
C9_Witness ==
    /\ IsWebrtcInit(call) /\ call.ret = 0
    /\ initialized /\ count >= 1 /\ g_current_transport = g_udp_transport

\* C10 - Registry set-then-get: NET_GetCurrentTransport called right after
\* NET_SetTransport( X ), X non-null, returns X.
C10_SetThenGet ==
    [][(call.op = "NET_SetTransport" /\ call.targ # NULL
            /\ call'.op = "NET_GetCurrentTransport")
        => call'.tret = call.targ]_vars

\* NET_SetTransport replaced the active WebRTC descriptor by UDP.
C10_Witness ==
    /\ call.op = "NET_SetTransport" /\ call.targ = g_udp_transport
    /\ call.tret = g_webrtc_transport
    /\ g_current_transport = g_udp_transport

IsSet(c) == c.op = "NET_SetTransport"
IsGet(c) == c.op = "NET_GetCurrentTransport"

\* C11 - Registry swap returns the previous active descriptor: in every
\* registry state, the unset one included, NET_SetTransport( X ) returns
\* what NET_GetCurrentTransport would have returned just before the call,
\* and never the null pointer.
C11_SetReturnsPrevious ==
    [][(IsSet(call') /\ call'.targ # NULL)
        => /\ call'.tret = ResolveCurrent(g_current_transport)
           /\ call'.tret # NULL]_vars

\* C12 - NET_SetTransport( NULL ) is a pure query: it leaves the cell
\* unchanged, so that NET_GetCurrentTransport returns the same descriptor
\* after it as before it, and it returns the previously active transport,
\* which is one of the two descriptors.
C12_SetNullIsQuery ==
    [][(IsSet(call') /\ call'.targ = NULL)
        => /\ g_current_transport' = g_current_transport
           /\ ResolveCurrent(g_current_transport') = ResolveCurrent(g_current_transport)
           /\ call'.tret = ResolveCurrent(g_current_transport)
           /\ call'.tret \in Transports]_vars

\* C13 - NET_GetCurrentTransport never returns the null pointer; while
\* nothing was set it returns the default transport, named "UDP", the one
\* NET_GetUDPTransport returns; and it leaves its result in the cell, so
\* that the next call returns the same descriptor.
C13_GetNeverNull ==
    /\ [](IsGet(call)
            => /\ call.tret \in Transports
               /\ call.tret = g_current_transport)
    /\ [](call.op = "NET_GetUDPTransport" => call.tret = "UDP")
    /\ [][(IsGet(call') /\ g_current_transport = NULL)
            => call'.tret = "UDP"]_vars
    /\ [][(IsGet(call) /\ IsGet(call')) => call'.tret = call.tret]_vars

\* NET_GetCurrentTransport resolved the default in a process where nothing
\* was set: the WebRTC transport never initialized.
C13_Witness ==
    /\ IsGet(call) /\ call.tret = g_udp_transport
    /\ ~initialized /\ \A s \in Slots : queue[s].length = 0

\* C14 - Re-initialisation through the descriptor: the init slot of the
\* WebRTC descriptor performs the readiness handshake, and whenever it
\* returns success the transport is ready with an empty queue.
C14_DescriptorInitMakesReady ==
    (call.op = "NET_WebRTC_Init" /\ call.ret = 1)
        => /\ call.js
           /\ initialized
           /\ count = 0

\* C15 - NotReady fails fast: while the transport is not ready, push, send,
\* poll and recv leave the slots, head, tail, count and the ready flag
\* unchanged and nothing becomes retrievable; send returns a negative value
\* without calling the bridge, poll returns 0, recv returns 0 and writes
\* nothing.  No packet is retrievable while not ready, so a later init
\* starts from none.
C15_NotReadyFailsFast ==
    /\ [](~initialized => (count = 0 /\ Retrievable = << >>))
    /\ [][(~initialized /\ (IsPush(call') \/ IsSend(call') \/ IsRecv(call')
                                \/ call'.op = "NET_WebRTC_Poll"))
            => /\ UNCHANGED <<queue, head, tail, count, initialized>>
               /\ Retrievable' = << >>
               /\ IsSend(call') => (call'.ret < 0 /\ ~call'.js)
               /\ call'.op = "NET_WebRTC_Poll" => call'.ret = 0
               /\ IsRecv(call') => (call'.ret = 0 /\ call'.buf = << >>)]_vars

\* A valid push arrived after shutdown and was refused.
C15_Witness ==
    /\ IsPush(call) /\ call.log = "received packet but not initialized"
    /\ call.arg >= 1 /\ call.arg <= WEBRTC_MAX_PACKET_SIZE
    /\ ~initialized /\ \E s \in Slots : queue[s].length >= 1

\* C16 - Outbound oversize is dropped: while ready, a send of more than
\* WEBRTC_MAX_PACKET_SIZE bytes is not forwarded to the bridge and fails.
C16_SendOversizeDropped ==
    (IsSend(call) /\ initialized /\ call.arg > WEBRTC_MAX_PACKET_SIZE)
        => /\ ~call.js
           /\ call.ret < 0

IsShutdown(c) == c.op = "NET_WebRTC_Shutdown"
IsInitOk(c) == IsWebrtcInit(c) /\ c.ret = 1

\* C17 - Single-writer discipline: push is the only operation that changes
\* tail and it never changes head; recv, shutdown and init are the only ones
\* that change head and they never change tail; and no field is changed by
\* both sides: count, which recv, shutdown and init change, is not changed
\* by push.
C17_SingleWriter ==
    [][/\ tail' # tail => IsPush(call')
       /\ IsPush(call') => head' = head
       /\ head' # head => (IsRecv(call') \/ IsShutdown(call') \/ IsWebrtcInit(call'))
       /\ (IsRecv(call') \/ IsShutdown(call') \/ IsWebrtcInit(call')) => tail' = tail
       /\ IsPush(call') => count' = count]_vars

\* C17 as amended - push is the only operation that advances tail and it
\* never changes head; recv is the only one that advances head and it never
\* changes tail; a successful init sets both head and tail to 0; shutdown
\* changes neither; count is changed from both sides: push adds one, recv
\* takes one away, a successful init and shutdown set it to 0.
C17_WritersAmended ==
    [][/\ tail' # tail =>
            \/ IsPush(call') /\ tail' = (tail + 1) % WEBRTC_QUEUE_SIZE
            \/ IsInitOk(call') /\ tail' = 0
       /\ head' # head =>
            \/ IsRecv(call') /\ head' = (head + 1) % WEBRTC_QUEUE_SIZE
            \/ IsInitOk(call') /\ head' = 0
       /\ IsPush(call') => head' = head
       /\ IsRecv(call') => tail' = tail
       /\ IsShutdown(call') => (head' = head /\ tail' = tail)
       /\ count' # count =>
            \/ IsPush(call') /\ count' = count + 1
            \/ IsRecv(call') /\ count' = count - 1
            \/ (IsInitOk(call') \/ IsShutdown(call')) /\ count' = 0]_vars

\* Shutdown emptied the queue and left head and tail where push and recv
\* had put them.
C17_Witness ==
    /\ IsShutdown(call) /\ count = 0
    /\ head # tail

\* C18 - Ring-buffer consistency: head and tail are always indices of the
\* ring, and while ready tail = (head + count) mod capacity, so that count
\* is 0 exactly when head = tail and no packet is stored, and count is the
\* capacity exactly when head = tail and every slot holds a packet; after
\* shutdown the relation need not hold.
C18_RingConsistency ==
    /\ head \in Slots /\ tail \in Slots
    /\ initialized =>
        /\ tail = (head + count) % WEBRTC_QUEUE_SIZE
        /\ (count = 0) <=> (head = tail /\ pending = << >>)
        /\ (count = WEBRTC_QUEUE_SIZE) <=> (head = tail /\ pending # << >>)
        /\ count = Len(pending)

\* The ring is full and has wrapped: head = tail at an index other than 0.
C18_Witness ==
    /\ initialized /\ count = WEBRTC_QUEUE_SIZE
    /\ head = tail /\ head # 0

\* C19 - The registry's cell changes only in NET_SetTransport with a
\* non-null argument, in a successful webrtc_init and in the lazy default
\* of NET_GetCurrentTransport; no other call changes it, so
\* NET_GetCurrentTransport right after the WebRTC transport's shutdown
\* still returns the WebRTC descriptor if it was the active one.
C19_RegistryWriters ==
    /\ [][g_current_transport' # g_current_transport =>
            \/ IsSet(call') /\ call'.targ # NULL
            \/ IsInitOk(call')
            \/ IsGet(call') /\ g_current_transport = NULL]_vars
    /\ [][(IsShutdown(call) /\ g_current_transport = g_webrtc_transport
                /\ IsGet(call'))
            => call'.tret = g_webrtc_transport]_vars

\* NET_GetCurrentTransport returned the WebRTC descriptor of a transport
\* that is no longer ready.
C19_Witness ==
    /\ IsGet(call) /\ call.tret = g_webrtc_transport
    /\ ~initialized

====
